---------------------------- MODULE Spec2Model ----------------------------
(***************************************************************************)
(* A model of nbhugoexporter/hugopreprocessor.py: HugoPreprocessor, the    *)
(* nbconvert preprocessor that quotes '_', '*' and '\\' inside LaTeX math  *)
(* and fills the default Hugo front matter (date, title, draft).           *)
(*                                                                         *)
(* A Python str is a sequence of one-character strings.  The backslash is  *)
(* written "\\" and the line feed "\n".                                    *)
(***************************************************************************)
EXTENDS Naturals, Sequences, FiniteSets

VARIABLES
    pc,            \* the position of the running call
    text,          \* argument `text` of _clean_latex / `markdown` of _extract_latex
    latex,         \* argument `latex` of _clean_latex
    quoted_latex,  \* local `quoted_latex` of _clean_latex
    out,           \* the value returned by _clean_latex / _extract_latex
    spans,         \* where each match of _extract_latex lies in `markdown`
    hugo,          \* nb['metadata'].get('hugo')
    cells,         \* nb.cells
    index,         \* loop variable `index` of preprocess
    name,          \* resources['metadata']['name']
    file_exists,   \* whether os.path.getmtime(file_path) finds the file
    stamp,         \* what strftime('%Y-%m-%dT%H:%M:%S%z') gives for the file's mtime
    in_hugo,       \* hugo as it was handed in
    in_cells       \* nb.cells as they were handed in

vars == <<pc, text, latex, quoted_latex, out, spans, hugo, cells, index, name,
          file_exists, stamp, in_hugo, in_cells>>

------------------------------------------------------------------------------
(* Bounds of the model.                                                     *)

MaxTextLen == 4
MaxLatexLen == 3
MaxMarkdownLen == 7
MaxSourceLen == 8
MaxOutputs == 2
MaxPayloadLen == 2
MaxNameLen == 3
MaxCells == 3

BS == "\\"
NL == "\n"

\* All strings over alphabet A of length at most n.
StrUpTo(A, n) == UNION {[1..k -> A] : k \in 0..n}

------------------------------------------------------------------------------
(* Python str primitives.                                                   *)

\* s[i-1:j-1] for 1-based i, exclusive j.
Slice(s, i, j) == SubSeq(s, i, j - 1)

\* s.startswith(sub, i-1)
MatchAt(s, sub, i) ==
    /\ i + Len(sub) - 1 <= Len(s)
    /\ \A k \in 1..Len(sub) : s[i + k - 1] = sub[k]

\* sub in s
Contains(s, sub) == \E i \in 1..(Len(s) + 1) : MatchAt(s, sub, i)

RECURSIVE ReplaceFrom(_, _, _, _)
ReplaceFrom(s, old, new, i) ==
    IF i > Len(s) THEN (IF old = <<>> THEN new ELSE <<>>)
    ELSE IF old = <<>> THEN new \o <<s[i]>> \o ReplaceFrom(s, old, new, i + 1)
    ELSE IF MatchAt(s, old, i) THEN new \o ReplaceFrom(s, old, new, i + Len(old))
    ELSE <<s[i]>> \o ReplaceFrom(s, old, new, i + 1)

\* s.replace(old, new): every occurrence, found left to right, none overlapping.
Replace(s, old, new) == ReplaceFrom(s, old, new, 1)

\* s.replace(old, new, 1)
ReplaceFirst(s, old, new) ==
    IF ~Contains(s, old) THEN s
    ELSE LET p == CHOOSE i \in 1..(Len(s) + 1) :
                     MatchAt(s, old, i) /\ \A j \in 1..(i - 1) : ~MatchAt(s, old, j)
         IN Slice(s, 1, p) \o new \o Slice(s, p + Len(old), Len(s) + 1)

------------------------------------------------------------------------------
(* _clean_latex                                                             *)

Newline == <<BS, "n", "e", "w", "l", "i", "n", "e">>

\* The '_' replace call left out.
QuoteLatexNoUnderscore(l) ==
    Replace(Replace(l, <<BS, BS>>, Newline), <<"*">>, <<BS, "*">>)

\* quoted_latex after the three replace calls.
QuoteLatex(l) ==
    LET q1 == Replace(l, <<BS, BS>>, Newline)
        q2 == Replace(q1, <<"_">>, <<BS, "_">>)
    IN Replace(q2, <<"*">>, <<BS, "*">>)

\* text.replace(latex, quoted_latex, 1)
SubstituteFirst(t, l, q) == ReplaceFirst(t, l, q)

\* text.replace(latex, quoted_latex)
Substitute(t, l, q) == Replace(t, l, q)

\* _clean_latex(text, latex)
clean_latex(t, l) == Substitute(t, l, QuoteLatex(l))

CleanAlphabet == {"a", BS, "_", "*"}

CleanTexts ==
    StrUpTo(CleanAlphabet, MaxTextLen)
    \cup { <<"t", " ", "$", "a", "_", "b", "$", " ", "e">>,
           <<"$", "a", "_", "b", "$", "$", "a", "_", "b", "$">>,
           <<BS, BS, BS, "_", "*", BS, BS, BS, "_", "*">> }

CleanLatexes ==
    StrUpTo(CleanAlphabet, MaxLatexLen)
    \cup { <<"$", "a", "_", "b", "$">>, <<BS, BS, BS, "_", "*">>,
           <<BS, BS, BS, BS>>, <<"*", BS, BS, "_">> }

InitClean ==
    /\ pc = "clean_call"
    /\ text \in CleanTexts
    /\ latex \in CleanLatexes
    /\ quoted_latex = <<>>
    /\ out = <<>>
    /\ spans = <<>>
    /\ hugo = <<>>
    /\ cells = <<>>
    /\ index = 0
    /\ name = <<>>
    /\ file_exists = TRUE
    /\ stamp = <<>>
    /\ in_hugo = <<>>
    /\ in_cells = <<>>

CallCleanLatex ==
    /\ pc = "clean_call"
    /\ quoted_latex' = QuoteLatex(latex)
    /\ out' = Substitute(text, latex, quoted_latex')
    /\ pc' = "clean_done"
    /\ UNCHANGED <<text, latex, spans, hugo, cells, index, name, file_exists,
                   stamp, in_hugo, in_cells>>

NextClean == CallCleanLatex

SpecClean == InitClean /\ [][NextClean]_vars

------------------------------------------------------------------------------
(* What _clean_latex is to return, stated without str.replace.              *)

\* l with '\\' -> '\newline', '_' -> '\_', '*' -> '\*', in one pass from the left.
RECURSIVE EscapeFrom(_, _)
EscapeFrom(l, i) ==
    IF i > Len(l) THEN <<>>
    ELSE IF l[i] = BS /\ i < Len(l) /\ l[i + 1] = BS
         THEN Newline \o EscapeFrom(l, i + 2)
    ELSE IF l[i] \in {"_", "*"} THEN <<BS, l[i]>> \o EscapeFrom(l, i + 1)
    ELSE <<l[i]>> \o EscapeFrom(l, i + 1)

EscapedOnce(l) == EscapeFrom(l, 1)

\* Where the left-to-right, non-overlapping occurrences of l start in t.
Occurrences(t, l) ==
    CHOOSE P \in SUBSET (1..Len(t)) :
        \A p \in 1..Len(t) :
            p \in P <=> /\ MatchAt(t, l, p)
                        /\ \A q \in P : q < p => q + Len(l) <= p

\* How many of the occurrences P of l end before position i.
EndedBefore(P, l, i) == Cardinality({p \in P : p + Len(l) <= i})

InOccurrence(P, l, i) == \E p \in P : p <= i /\ i < p + Len(l)

\* Where the span that replaces the occurrence at p starts in the result.
SpanStart(P, l, q, p) == p + EndedBefore(P, l, p) * (Len(q) - Len(l))

\* C1: _clean_latex(T, L) is T with every left-to-right, non-overlapping
\* occurrence of L replaced by E(L), where E(L) is L with '\\' turned into
\* '\newline', then '_' into '\_', then '*' into '\*'; the text outside the
\* occurrences is unchanged, and T is returned as it is when L does not occur.
C1_CleanLatexReplacesEveryOccurrence ==
    pc = "clean_done" =>
        LET E == EscapedOnce(latex)
            P == Occurrences(text, latex)
        IN IF latex = <<>> THEN out = text
           ELSE /\ quoted_latex = E
                /\ Len(out) = Len(text) + Cardinality(P) * (Len(E) - Len(latex))
                /\ \A i \in 1..Len(text) :
                       ~InOccurrence(P, latex, i) =>
                           out[i + EndedBefore(P, latex, i) * (Len(E) - Len(latex))]
                               = text[i]
                /\ \A p \in P : MatchAt(out, E, SpanStart(P, latex, E, p))
                /\ (~Contains(text, latex) => out = text)

\* Two occurrences of a latex that holds '\\', '_' and '*' have been replaced.
C1_Witness ==
    /\ pc = "clean_done"
    /\ Cardinality(Occurrences(text, latex)) = 2
    /\ Contains(latex, <<BS, BS>>)
    /\ Contains(latex, <<"_">>)
    /\ Contains(latex, <<"*">>)
    /\ out # text

\* The spans of the result that were occurrences of latex: (start, length).
ResultSpans ==
    LET P == Occurrences(text, latex)
    IN {SpanStart(P, latex, quoted_latex, p) : p \in P}

EveryMarkQuoted ==
    \A s \in ResultSpans : \A k \in 0..(Len(quoted_latex) - 1) :
        out[s + k] \in {"_", "*"} => k >= 1 /\ out[s + k - 1] = BS

NoDoubleBackslash ==
    \A s \in ResultSpans : \A k \in 1..(Len(quoted_latex) - 1) :
        ~(out[s + k - 1] = BS /\ out[s + k] = BS)

DoubleBackslashOnlyBeforeMark ==
    \A s \in ResultSpans : \A k \in 1..(Len(quoted_latex) - 1) :
        (out[s + k - 1] = BS /\ out[s + k] = BS) =>
            /\ k + 1 <= Len(quoted_latex) - 1
            /\ out[s + k + 1] \in {"_", "*"}

BackslashBeforeMark(l) ==
    \E i \in 1..(Len(l) - 1) : l[i] = BS /\ l[i + 1] \in {"_", "*"}

\* C2 as claimed: when L occurs in T, the spans of the result that were L hold
\* no '_' or '*' that is not right after a backslash, and no two-backslash
\* sequence at all.
C2_AsClaimed ==
    (pc = "clean_done" /\ Contains(text, latex)) =>
        EveryMarkQuoted /\ NoDoubleBackslash

\* C2, amended: when L occurs in T, the spans of the result that were L hold no
\* '_' or '*' that is not right after a backslash; a two-backslash sequence is
\* found there only right before a '_' or '*' (the quoting backslash put after
\* a backslash L already had there), and nowhere when L has no backslash right
\* before a '_' or '*'.
C2_SpansQuoted ==
    (pc = "clean_done" /\ Contains(text, latex)) =>
        /\ EveryMarkQuoted
        /\ DoubleBackslashOnlyBeforeMark
        /\ (~BackslashBeforeMark(latex) => NoDoubleBackslash)

\* An L of an odd run of backslashes before '_' has been replaced in T.
C2_Witness ==
    /\ pc = "clean_done"
    /\ latex = <<BS, BS, BS, "_", "*">>
    /\ Cardinality(ResultSpans) = 2
    /\ ~NoDoubleBackslash

------------------------------------------------------------------------------
(* _extract_latex                                                           *)

Dollars(s, i, n) == i + n - 1 <= Len(s) /\ \A k \in 0..(n - 1) : s[i + k] = "$"

\* The closing delimiter found without the [^\\] before it: a backslash may
\* stand right before the closing dollars.
ClosingAnyChar(s, from, n) ==
    LET ok == {e \in from..Len(s) : Dollars(s, e + 1, n)}
    IN IF ok = {} THEN 0 ELSE CHOOSE e \in ok : \A f \in ok : e <= f

\* Where the lazy '.*?[^\\]' stops: the least e >= from with s[e] not a
\* backslash and the n-dollar closing delimiter right after it; 0 when there
\* is none.
Closing(s, from, n) ==
    LET ok == {e \in from..Len(s) : s[e] # BS /\ Dollars(s, e + 1, n)}
    IN IF ok = {} THEN 0 ELSE CHOOSE e \in ok : \A f \in ok : e <= f

\* display_math tried at position p: (?:^|[^\\])(\$\$.*?[^\\]\$\$), DOTALL.
\* <<>> when it does not match there, else the group's first position, the
\* position after its last, taking the '^' branch before the '[^\\]' one.
display_math(s, p) ==
    LET e1 == IF p = 1 /\ Dollars(s, p, 2) THEN Closing(s, p + 2, 2) ELSE 0
        e2 == IF p <= Len(s) /\ s[p] # BS /\ Dollars(s, p + 1, 2)
              THEN Closing(s, p + 3, 2) ELSE 0
    IN IF e1 # 0 THEN <<[start |-> p, end |-> e1 + 3, pass |-> "display"]>>
       ELSE IF e2 # 0 THEN <<[start |-> p + 1, end |-> e2 + 3, pass |-> "display"]>>
       ELSE <<>>

\* inline_math tried at position p: [^\$\\](\$.*?[^\\]\$), DOTALL.
inline_math(s, p) ==
    LET e == IF p <= Len(s) /\ s[p] \notin {"$", BS} /\ Dollars(s, p + 1, 1)
             THEN Closing(s, p + 2, 1) ELSE 0
    IN IF e # 0 THEN <<[start |-> p + 1, end |-> e + 2, pass |-> "inline"]>>
       ELSE <<>>

\* re.findall: the matches from the left, each search starting where the
\* match before it ended.
RECURSIVE FindDisplay(_, _)
FindDisplay(s, p) ==
    IF p > Len(s) THEN <<>>
    ELSE LET m == display_math(s, p)
         IN IF m # <<>> THEN m \o FindDisplay(s, m[1].end)
            ELSE FindDisplay(s, p + 1)

RECURSIVE FindInline(_, _)
FindInline(s, p) ==
    IF p > Len(s) THEN <<>>
    ELSE LET m == inline_math(s, p)
         IN IF m # <<>> THEN m \o FindInline(s, m[1].end)
            ELSE FindInline(s, p + 1)

\* markdown.split('\n\n'): each block with the number of characters before it.
RECURSIVE SplitFrom(_, _, _)
SplitFrom(s, from, i) ==
    IF i > Len(s) THEN <<[offset |-> from - 1, block |-> Slice(s, from, Len(s) + 1)]>>
    ELSE IF MatchAt(s, <<NL, NL>>, i)
         THEN <<[offset |-> from - 1, block |-> Slice(s, from, i)]>>
              \o SplitFrom(s, i + 2, i + 2)
    ELSE SplitFrom(s, from, i + 1)

\* The text searched as one block, whatever blank lines it holds.
Unsplit(s) == <<[offset |-> 0, block |-> s]>>

Blocks(s) == SplitFrom(s, 1, 1)

Shift(ms, d) == [i \in 1..Len(ms) |-> [ms[i] EXCEPT !.start = @ + d, !.end = @ + d]]

RECURSIVE InlineOfBlocks(_, _)
InlineOfBlocks(bs, i) ==
    IF i > Len(bs) THEN <<>>
    ELSE Shift(FindInline(bs[i].block, 1), bs[i].offset) \o InlineOfBlocks(bs, i + 1)

\* The matches of _extract_latex in the order of the returned list: those of
\* display_math in markdown, then those of inline_math in each block.
Matches(markdown) == FindDisplay(markdown, 1) \o InlineOfBlocks(Blocks(markdown), 1)

\* _extract_latex(markdown)
extract_latex(markdown) ==
    LET ms == Matches(markdown)
    IN [i \in 1..Len(ms) |-> Slice(markdown, ms[i].start, ms[i].end)]

MarkdownAlphabet == {"a", "$", BS, NL}

ExInline == <<"I", "n", " ", "$", "a", "_", "b", "$", " ", "m">>
ExDisplay == <<"D", ":", NL, "$", "$", "x", "_", "1", " ", "+", " ", "x", "_", "2", "$", "$", NL, "m">>
ExParagraphs == <<"o", "n", "e", " ", "$", "a", "$", NL, NL, "t", "w", "o", " ", "$", "b", "$">>

Markdowns ==
    StrUpTo(MarkdownAlphabet, MaxMarkdownLen) \cup {ExInline, ExDisplay, ExParagraphs}

InitExtract ==
    /\ pc = "extract_call"
    /\ text \in Markdowns
    /\ latex = <<>>
    /\ quoted_latex = <<>>
    /\ out = <<>>
    /\ spans = <<>>
    /\ hugo = <<>>
    /\ cells = <<>>
    /\ index = 0
    /\ name = <<>>
    /\ file_exists = TRUE
    /\ stamp = <<>>
    /\ in_hugo = <<>>
    /\ in_cells = <<>>

CallExtractLatex ==
    /\ pc = "extract_call"
    /\ spans' = Matches(text)
    /\ out' = extract_latex(text)
    /\ pc' = "extract_done"
    /\ UNCHANGED <<text, latex, quoted_latex, hugo, cells, index, name,
                   file_exists, stamp, in_hugo, in_cells>>

NextExtract == CallExtractLatex

SpecExtract == InitExtract /\ [][NextExtract]_vars

------------------------------------------------------------------------------
(* Claims about _extract_latex.                                             *)

DollarPositions(t) == {i \in 1..Len(t) : t[i] = "$"}

\* The '$' of t are those of one '$$...$$' block, neither '$$' after a backslash.
OneDisplayBlock(t) ==
    \E i, j \in 1..Len(t) :
        /\ j >= i + 3
        /\ DollarPositions(t) = {i, i + 1, j, j + 1}
        /\ t[j - 1] # BS
        /\ (i > 1 => t[i - 1] # BS)

TheDisplayBlock(t) ==
    LET D == DollarPositions(t)
        lo == CHOOSE i \in D : \A k \in D : i <= k
        hi == CHOOSE i \in D : \A k \in D : i >= k
    IN Slice(t, lo, hi + 1)

\* C4 as claimed: for a text whose only '$' are those of one '$$...$$' block,
\* with or without a character before it, _extract_latex returns exactly that
\* block; extract("Display:\n$$x_1 + x_2$$\nmore") is ["$$x_1 + x_2$$"].
C4_AsClaimed ==
    (pc = "extract_done" /\ OneDisplayBlock(text)) =>
        out = <<TheDisplayBlock(text)>>

InlineIndexes == {i \in 1..Len(spans) : spans[i].pass = "inline"}

\* C5: no segment of the inline pass holds a blank line or reaches over a
\* '\n\n' the text is split on; the inline segments come after the display
\* ones, in paragraph order and from left to right; and
\* extract("para one $a$\n\npara two $b$") = ["$a$", "$b$"],
\* extract("Inline $a_b$ math") = ["$a_b$"].
C5_InlineWithinParagraph ==
    pc = "extract_done" =>
        /\ Len(out) = Len(spans)
        /\ \A i \in InlineIndexes :
               /\ out[i] = Slice(text, spans[i].start, spans[i].end)
               /\ ~Contains(out[i], <<NL, NL>>)
               /\ \A p \in Occurrences(text, <<NL, NL>>) :
                      spans[i].end <= p \/ spans[i].start >= p + 2
               /\ \A j \in InlineIndexes : i < j => spans[i].end <= spans[j].start
               /\ \A j \in 1..Len(spans) : spans[j].pass = "display" => j < i
        /\ (text = ExParagraphs => out = << <<"$", "a", "$">>, <<"$", "b", "$">> >>)
        /\ (text = ExInline => out = << <<"$", "a", "_", "b", "$">> >>)

\* Inline segments were found on both sides of a paragraph break.
C5_Witness ==
    /\ pc = "extract_done"
    /\ \E p \in Occurrences(text, <<NL, NL>>) : \E i, j \in InlineIndexes :
           spans[i].end <= p /\ spans[j].start >= p + 2

\* C6: every matched segment is the stretch of the input between its match's
\* ends, begins and ends with '$', has no backslash right before its opening
\* '$' nor right before its closing delimiter ('$$' for display, '$' for inline).
C6_NoEscapedDelimiter ==
    pc = "extract_done" =>
        /\ Len(out) = Len(spans)
        /\ \A i \in 1..Len(spans) :
               LET m == spans[i]
                   n == IF m.pass = "display" THEN 2 ELSE 1
               IN /\ 1 <= m.start /\ m.end <= Len(text) + 1
                  /\ out[i] = Slice(text, m.start, m.end)
                  /\ out[i][1] = "$" /\ out[i][Len(out[i])] = "$"
                  /\ Dollars(text, m.start, n)
                  /\ (m.start > 1 => text[m.start - 1] # BS)
                  /\ (m.pass = "inline" => m.start > 1)
                  /\ Dollars(text, m.end - n, n)
                  /\ m.end - n - 1 >= m.start + n
                  /\ text[m.end - n - 1] # BS

\* A segment was matched around a backslash-escaped '$' inside it.
C6_Witness ==
    /\ pc = "extract_done"
    /\ \E i \in 1..Len(spans) : \E k \in spans[i].start..(spans[i].end - 2) :
           text[k] = BS /\ text[k + 1] = "$"

------------------------------------------------------------------------------
(* preprocess_cell                                                          *)

\* for latex in latex_segments: cell.source = self._clean_latex(cell.source, latex)
RECURSIVE CleanSegments(_, _, _)
CleanSegments(source, latex_segments, i) ==
    IF i > Len(latex_segments) THEN source
    ELSE CleanSegments(clean_latex(source, latex_segments[i]), latex_segments, i + 1)

\* Every payload of the output cleaned, whatever its MIME type.
CleanOutputEveryMime(o) ==
    [o EXCEPT !.data = [m \in DOMAIN o.data |-> clean_latex(o.data[m], o.data[m])]]

\* The body of `for o in cell.outputs or []`: o.get('data', {}).get('text/latex')
\* is cleaned against itself when it is there and not empty.
CleanOutput(o) ==
    IF o.has_data /\ "text/latex" \in DOMAIN o.data /\ o.data["text/latex"] # <<>>
    THEN [o EXCEPT !.data["text/latex"] = clean_latex(@, @)]
    ELSE o

\* preprocess_cell(cell, resources, cell_index): the cell it returns.  An
\* outputs of None is is_none, which `cell.outputs or []` reads as no output.
preprocess_cell(cell) ==
    IF cell.cell_type = "markdown"
    THEN [cell EXCEPT !.source = CleanSegments(@, extract_latex(@), 1)]
    ELSE IF cell.cell_type = "code"
    THEN [cell EXCEPT !.outputs.list = [i \in 1..Len(@) |-> CleanOutput(@[i])]]
    ELSE cell

NoOutputs == [is_none |-> TRUE, list |-> <<>>]

MarkdownCell(source) == [cell_type |-> "markdown", source |-> source, outputs |-> NoOutputs]

CodeCell(outputs) == [cell_type |-> "code", source |-> <<"x">>, outputs |-> outputs]

RawCell == [cell_type |-> "raw", source |-> <<"$", "_", "$">>, outputs |-> NoOutputs]

SourceAlphabet == {"a", "$", BS, "_"}

Sources == StrUpTo(SourceAlphabet, MaxSourceLen)

MimeTypes == {"text/latex", "text/plain"}

ExPayload == <<"$", "x", "_", "y", "$">>

Payloads == StrUpTo({"_", BS}, MaxPayloadLen) \cup {ExPayload}

Outputs ==
    {[has_data |-> FALSE, data |-> <<>>], [has_data |-> TRUE, data |-> <<>>]}
    \cup {[has_data |-> TRUE, data |-> [m \in {"text/plain"} |-> <<"*", "_">>]]}
    \cup {[has_data |-> TRUE, data |-> [m \in {"text/latex"} |-> p]] : p \in Payloads}
    \cup {[has_data |-> TRUE,
           data |-> [m \in MimeTypes |-> IF m = "text/latex" THEN p ELSE <<"*", "_">>]] :
          p \in Payloads}

OutputLists == UNION {[1..k -> Outputs] : k \in 0..MaxOutputs}

CodeCells == {CodeCell(NoOutputs)} \cup {CodeCell([is_none |-> FALSE, list |-> l]) : l \in OutputLists}

InitCellOf(cellSet) ==
    /\ pc = "cell_call"
    /\ in_cells \in {<<c>> : c \in cellSet}
    /\ cells = in_cells
    /\ index = 1
    /\ text = <<>>
    /\ latex = <<>>
    /\ quoted_latex = <<>>
    /\ out = <<>>
    /\ spans = <<>>
    /\ hugo = <<>>
    /\ name = <<>>
    /\ file_exists = TRUE
    /\ stamp = <<>>
    /\ in_hugo = <<>>

\* preprocess_cell called on a markdown cell.
InitCell == InitCellOf({MarkdownCell(src) : src \in Sources})

\* preprocess_cell called on a code cell, or on a cell of another type.
InitOutputs == InitCellOf(CodeCells \cup {RawCell})

\* One call of preprocess_cell on cells[index]; for a markdown cell spans is
\* where the segments of latex_segments were matched in the source.
CallPreprocessCell ==
    /\ pc = "cell_call"
    /\ cells' = [cells EXCEPT ![index] = preprocess_cell(@)]
    /\ spans' = IF cells[index].cell_type = "markdown"
                THEN Matches(cells[index].source) ELSE <<>>
    /\ pc' = "cell_done"
    /\ UNCHANGED <<text, latex, quoted_latex, out, hugo, index, name, file_exists,
                   stamp, in_hugo, in_cells>>

NextCell == CallPreprocessCell

SpecCell == InitCell /\ [][NextCell]_vars

SpecOutputs == InitOutputs /\ [][NextCell]_vars

------------------------------------------------------------------------------
(* Claims about preprocess_cell.                                            *)

\* The positions of t inside one of the matches ms.
Covered(t, ms) ==
    {i \in 1..Len(t) : \E k \in 1..Len(ms) : ms[k].start <= i /\ i < ms[k].end}

\* t with one layer of quoting over each stretch of positions in C and the
\* rest as it is.
RECURSIVE EscapeCovered(_, _, _)
EscapeCovered(t, C, i) ==
    IF i > Len(t) THEN <<>>
    ELSE IF i \notin C THEN <<t[i]>> \o EscapeCovered(t, C, i + 1)
    ELSE LET j == CHOOSE e \in (i + 1)..(Len(t) + 1) :
                      /\ \A k \in i..(e - 1) : k \in C
                      /\ e \notin C
         IN EscapedOnce(Slice(t, i, j)) \o EscapeCovered(t, C, j)

\* Every place of t that reads as one of the matched segments lies inside the
\* matched stretches: replacing by value touches nothing outside them.
OnlyExtractedOccurrences(t, ms) ==
    \A k \in 1..Len(ms) : \A p \in 1..Len(t) :
        MatchAt(t, Slice(t, ms[k].start, ms[k].end), p) =>
            \A i \in p..(p + ms[k].end - ms[k].start - 1) : i \in Covered(t, ms)

\* C3 as claimed: one pass of preprocess_cell over a markdown cell leaves one
\* layer of quoting, and never two, on what lay inside the extracted segments
\* of the original source: the final source is the original with each
\* extracted stretch quoted once.
C3_AsClaimed ==
    (/\ pc = "cell_done"
     /\ in_cells[1].cell_type = "markdown"
     /\ OnlyExtractedOccurrences(in_cells[1].source, spans)) =>
        cells[1].source =
            EscapeCovered(in_cells[1].source, Covered(in_cells[1].source, spans), 1)

------------------------------------------------------------------------------
(* preprocess                                                               *)

\* Python values held under metadata.hugo.
PyNone == [type |-> "NoneType", val |-> <<>>]
PyTrue == [type |-> "bool", val |-> <<"True">>]
PyFalse == [type |-> "bool", val |-> <<"False">>]
PyStr(s) == [type |-> "str", val |-> s]

\* bool(v)
Truthy(v) == v # PyNone /\ v # PyFalse /\ v # PyStr(<<>>)

\* hugo.get(key, default)
Get(h, key, default) == IF key \in DOMAIN h.map THEN h.map[key] ELSE default

\* hugo[key] = value
Put(h, key, value) ==
    [h EXCEPT !.map = [k \in DOMAIN h.map \cup {key} |-> IF k = key THEN value ELSE h.map[k]]]

\* _time_format_hugo, from what strftime gave: out[:-2] + ':' + out[-2:]
time_format_hugo(o) ==
    Slice(o, 1, Len(o) - 1) \o <<":">> \o Slice(o, Len(o) - 1, Len(o) + 1)

LowerCase ==
    <<"a", "b", "c", "d", "e", "f", "g", "h", "i", "j", "k", "l", "m",
      "n", "o", "p", "q", "r", "s", "t", "u", "v", "w", "x", "y", "z">>

UpperCase ==
    <<"A", "B", "C", "D", "E", "F", "G", "H", "I", "J", "K", "L", "M",
      "N", "O", "P", "Q", "R", "S", "T", "U", "V", "W", "X", "Y", "Z">>

\* c.upper() and c.lower() of one ASCII character.
Upper(c) ==
    IF \E i \in 1..Len(LowerCase) : LowerCase[i] = c
    THEN UpperCase[CHOOSE i \in 1..Len(LowerCase) : LowerCase[i] = c] ELSE c

Lower(c) ==
    IF \E i \in 1..Len(UpperCase) : UpperCase[i] = c
    THEN LowerCase[CHOOSE i \in 1..Len(UpperCase) : UpperCase[i] = c] ELSE c

\* The first character upper-cased and the rest left as it is.
CapitalizeKeepRest(w) ==
    [i \in 1..Len(w) |-> IF i = 1 THEN Upper(w[i]) ELSE w[i]]

\* str.capitalize(): the first character upper-cased, the rest lower-cased.
Capitalize(w) ==
    [i \in 1..Len(w) |-> IF i = 1 THEN Upper(w[i]) ELSE Lower(w[i])]

\* ' '.join(_.capitalize() for _ in name.split('_')), piece by piece from
\* position i, `from` being where the piece at hand began.
RECURSIVE TitleFrom(_, _, _)
TitleFrom(n, from, i) ==
    IF i > Len(n) THEN Capitalize(Slice(n, from, i))
    ELSE IF n[i] = "_"
         THEN Capitalize(Slice(n, from, i)) \o <<" ">> \o TitleFrom(n, i + 1, i + 1)
    ELSE TitleFrom(n, from, i + 1)

Title(n) == TitleFrom(n, 1, 1)

\* hugo['draft'] = hugo.get('draft') or True
DraftOrTrue(h) == IF Truthy(Get(h, "draft", PyNone)) THEN Get(h, "draft", PyNone) ELSE PyTrue

\* hugo.get('draft', True)
DraftDefault(h) == Get(h, "draft", PyTrue)

\* The three defaults, lines 128 to 133, stored in this order.
WithDefaults(h, n, o) ==
    LET date == IF Truthy(Get(h, "date", PyNone)) THEN Get(h, "date", PyNone)
                ELSE PyStr(time_format_hugo(o))
        h1 == Put(h, "date", date)
        title == IF Truthy(Get(h1, "title", PyNone)) THEN Get(h1, "title", PyNone)
                 ELSE PyStr(Title(n))
        h2 == Put(h1, "title", title)
    IN Put(h2, "draft", DraftDefault(h2))

\* getmtime read only when the date is to be defaulted.
GetmtimeRaisesIfNoDate == ~file_exists /\ ~Truthy(Get(hugo, "date", PyNone))

\* os.path.getmtime(file_path) raises for a file that is not there.
GetmtimeRaises == ~file_exists

\* Lines 118 to 121: metadata.hugo is made a mapping when it is None or absent.
EnsureHugo ==
    /\ pc = "preprocess_call"
    /\ hugo' = IF hugo.is_none THEN [is_none |-> FALSE, map |-> <<>>] ELSE hugo
    /\ pc' = "getmtime"
    /\ UNCHANGED <<text, latex, quoted_latex, out, spans, cells, index, name,
                   file_exists, stamp, in_hugo, in_cells>>

\* Lines 124 to 127: the failure of getmtime leaves preprocess.
ReadMtime ==
    /\ pc = "getmtime"
    /\ pc' = IF GetmtimeRaises THEN "raised" ELSE "defaults"
    /\ UNCHANGED <<text, latex, quoted_latex, out, spans, hugo, cells, index, name,
                   file_exists, stamp, in_hugo, in_cells>>

\* Lines 128 to 133.
SetDefaults ==
    /\ pc = "defaults"
    /\ hugo' = WithDefaults(hugo, name, stamp)
    /\ index' = 1
    /\ pc' = "cells"
    /\ UNCHANGED <<text, latex, quoted_latex, out, spans, cells, name,
                   file_exists, stamp, in_hugo, in_cells>>

\* Lines 136 to 138: one turn of the loop over nb.cells.
ProcessCell ==
    /\ pc = "cells"
    /\ index <= Len(cells)
    /\ cells' = [cells EXCEPT ![index] = preprocess_cell(@)]
    /\ index' = index + 1
    /\ UNCHANGED <<pc, text, latex, quoted_latex, out, spans, hugo, name,
                   file_exists, stamp, in_hugo, in_cells>>

\* Line 140.
Return ==
    /\ pc = "cells"
    /\ index > Len(cells)
    /\ pc' = "returned"
    /\ UNCHANGED <<text, latex, quoted_latex, out, spans, hugo, cells, index, name,
                   file_exists, stamp, in_hugo, in_cells>>

NextPreprocess == EnsureHugo \/ ReadMtime \/ SetDefaults \/ ProcessCell \/ Return

HugoKeys == {"date", "title", "draft"}

ExDate == PyStr(<<"2", "0", "1", "9">>)
ExTitle == PyStr(<<"T">>)

HugoValues(k) ==
    IF k = "date" THEN {PyNone, PyStr(<<>>), ExDate}
    ELSE IF k = "title" THEN {PyNone, PyStr(<<>>), ExTitle}
    ELSE {PyNone, PyFalse, PyTrue}

HugoMaps ==
    UNION {{m \in [K -> {PyNone, PyFalse, PyTrue, PyStr(<<>>), ExDate, ExTitle}] :
                \A k \in K : m[k] \in HugoValues(k)} : K \in SUBSET HugoKeys}

Hugos ==
    {[is_none |-> TRUE, map |-> <<>>]} \cup {[is_none |-> FALSE, map |-> m] : m \in HugoMaps}

ExName == <<"m", "y", "_", "f", "i", "r", "s", "t", "_", "p", "o", "s", "t">>

Stamps == { <<"2", "0", "1", "9", "-", "0", "3", "-", "0", "1", "T", "1", "2", ":", "3", "0", ":", "0", "0", "+", "0", "1", "0", "0">>,
            <<"2", "0", "1", "9", "-", "0", "3", "-", "0", "1", "T", "0", "7", ":", "0", "0", ":", "0", "0", "-", "0", "5", "3", "0">> }

NameAlphabet == {"a", "B", "_"}

Names == StrUpTo(NameAlphabet, MaxNameLen) \cup {ExName}

InitPreprocess(hugos, names, cellLists) ==
    /\ pc = "preprocess_call"
    /\ in_hugo \in hugos
    /\ hugo = in_hugo
    /\ in_cells \in cellLists
    /\ cells = in_cells
    /\ name \in names
    /\ file_exists \in BOOLEAN
    /\ stamp \in Stamps
    /\ index = 0
    /\ text = <<>>
    /\ latex = <<>>
    /\ quoted_latex = <<>>
    /\ out = <<>>
    /\ spans = <<>>

ExCell == MarkdownCell(<<"a", "$", "_", "$">>)

\* The metadata and the name varied, over a notebook of no cell or one.
InitMeta == InitPreprocess(Hugos, Names, {<<>>, <<ExCell>>})

SpecMeta == InitMeta /\ [][NextPreprocess]_vars

CellSamples ==
    { ExCell,
      MarkdownCell(<<"$", "$", "a", "*", BS, BS, "$", "$">>),
      CodeCell(NoOutputs),
      CodeCell([is_none |-> FALSE,
                list |-> <<[has_data |-> TRUE,
                            data |-> [m \in MimeTypes |-> <<"$", "_", "$">>]]>>]),
      RawCell }

HugoSamples ==
    { [is_none |-> TRUE, map |-> <<>>],
      [is_none |-> FALSE, map |-> <<>>],
      [is_none |-> FALSE, map |-> [k \in HugoKeys |->
          IF k = "date" THEN ExDate ELSE IF k = "title" THEN PyStr(<<>>) ELSE PyFalse]],
      [is_none |-> FALSE, map |-> [k \in {"date", "draft"} |->
          IF k = "date" THEN PyStr(<<>>) ELSE PyTrue]] }

\* The cells varied, over a few metadata and names.
InitDocument ==
    InitPreprocess(HugoSamples, {ExName, <<"a", "B">>},
                   UNION {[1..k -> CellSamples] : k \in 0..MaxCells})

SpecDocument == InitDocument /\ [][NextPreprocess]_vars

------------------------------------------------------------------------------
(* Claims about preprocess.                                                 *)

Defaulted == pc \in {"cells", "returned"}

Kept(k) == k \in DOMAIN hugo.map /\ hugo.map[k] = in_hugo.map[k]

\* C7 as claimed: a key of date, title and draft that holds a value before
\* preprocess, whatever the value (an empty date or title, a draft of False),
\* holds the same value in every state of preprocess.
C7_AsClaimed ==
    \A k \in HugoKeys :
        (k \in DOMAIN in_hugo.map /\ in_hugo.map[k] # PyNone) => Kept(k)

\* What _time_format_hugo is to give: o with a colon before its last two characters.
ColonInOffset(d, o) ==
    /\ Len(d) = Len(o) + 1
    /\ \A i \in 1..(Len(o) - 2) : d[i] = o[i]
    /\ d[Len(o) - 1] = ":"
    /\ d[Len(o)] = o[Len(o) - 1] /\ d[Len(o) + 1] = o[Len(o)]

\* C7, amended: draft is set if absent only (a draft that is there, False or
\* None included, is kept; an absent one becomes True); date and title are
\* kept when they are there and truthy, and an absent or falsy (None, empty)
\* date or title is replaced by its default once the file's time was read.
C7_SetIfAbsentOrFalsy ==
    /\ \A k \in HugoKeys :
           (k \in DOMAIN in_hugo.map /\ (k = "draft" \/ Truthy(in_hugo.map[k]))) => Kept(k)
    /\ ~Defaulted => hugo.map = in_hugo.map
    /\ Defaulted =>
           /\ DOMAIN hugo.map = DOMAIN in_hugo.map \cup HugoKeys
           /\ ("draft" \notin DOMAIN in_hugo.map => hugo.map["draft"] = PyTrue)
           /\ (~Truthy(Get(in_hugo, "date", PyNone)) =>
                   /\ hugo.map["date"].type = "str"
                   /\ ColonInOffset(hugo.map["date"].val, stamp))
           /\ (~Truthy(Get(in_hugo, "title", PyNone)) =>
                   hugo.map["title"] = PyStr(Title(name)))

\* preprocess returned for a draft of False, a date that was set and an
\* empty title, which was replaced.
C7_Witness ==
    /\ pc = "returned"
    /\ DOMAIN in_hugo.map = HugoKeys
    /\ in_hugo.map["draft"] = PyFalse
    /\ in_hugo.map["date"] = ExDate
    /\ in_hugo.map["title"] = PyStr(<<>>)
    /\ hugo.map["title"] # in_hugo.map["title"]

FirstOfPiece(n, i) == i = 1 \/ n[i - 1] = "_"

\* The title with the first letter of each piece capitalized and the rest of
\* the piece as it is in the name.
TitleRestKept(n) ==
    [i \in 1..Len(n) |-> IF n[i] = "_" THEN " "
                         ELSE IF FirstOfPiece(n, i) THEN Upper(n[i]) ELSE n[i]]

\* The title with the first letter of each piece capitalized and the rest of
\* the piece lower-cased.
TitleRestLowered(n) ==
    [i \in 1..Len(n) |-> IF n[i] = "_" THEN " "
                         ELSE IF FirstOfPiece(n, i) THEN Upper(n[i]) ELSE Lower(n[i])]

\* C8 as claimed: an absent or falsy title becomes the name split on '_', the
\* first letter of each piece capitalized, the rest of the piece left as it
\* is, the pieces joined by single spaces.
C8_AsClaimed ==
    (Defaulted /\ ~Truthy(Get(in_hugo, "title", PyNone))) =>
        hugo.map["title"] = PyStr(TitleRestKept(name))

\* C8, amended: once the file's time was read, an absent or falsy title becomes
\* the name split on '_', the first character of each piece upper-cased and
\* the rest of the piece lower-cased, the pieces (empty ones included) joined
\* by single spaces; "my_first_post" gives "My First Post".
C8_TitleCapitalizedRestLowered ==
    (Defaulted /\ ~Truthy(Get(in_hugo, "title", PyNone))) =>
        /\ hugo.map["title"] = PyStr(TitleRestLowered(name))
        /\ (name = ExName =>
                hugo.map["title"].val = <<"M", "y", " ", "F", "i", "r", "s", "t", " ",
                                           "P", "o", "s", "t">>)

\* A title was derived from a name with an underscore and an upper-case
\* letter after the first character of a piece.
C8_Witness ==
    /\ pc = "returned"
    /\ ~Truthy(Get(in_hugo, "title", PyNone))
    /\ Contains(name, <<"_">>)
    /\ \E i \in 2..Len(name) : name[i] = "B" /\ name[i - 1] = "a"

BeforeDefaults == pc \in {"preprocess_call", "getmtime", "raised"}

\* C10: the file's time is read before any default is stored and any cell is
\* processed, whether or not the date is set: when the file is missing
\* preprocess raises with the cells and the date, title and draft as they were
\* handed in; when it is there, the cells are processed once each in index
\* order, their number and order unchanged.
C10_MtimeReadFirst ==
    /\ BeforeDefaults => cells = in_cells /\ hugo.map = in_hugo.map
    /\ pc = "raised" => ~file_exists
    /\ ~file_exists => BeforeDefaults
    /\ pc = "defaults" => cells = in_cells
    /\ pc = "cells" =>
           /\ index \in 1..(Len(in_cells) + 1)
           /\ Len(cells) = Len(in_cells)
           /\ \A i \in 1..Len(cells) :
                  cells[i] = IF i < index THEN preprocess_cell(in_cells[i]) ELSE in_cells[i]
    /\ pc = "returned" =>
           /\ file_exists
           /\ Len(cells) = Len(in_cells)
           /\ \A i \in 1..Len(cells) : cells[i] = preprocess_cell(in_cells[i])

\* preprocess raised for a missing file although the date was set and there
\* were cells to process.
C10_Witness ==
    /\ pc = "raised"
    /\ Truthy(Get(in_hugo, "date", PyNone))
    /\ Len(in_cells) >= 2
    /\ \E i \in 1..Len(in_cells) : preprocess_cell(in_cells[i]) # in_cells[i]

==============================================================================
